---- MODULE Spec2Model ----
(***************************************************************************)
(* Model of backend/server.js of monitor-sistema: the CPU sampler, the     *)
(* memory reader, the process collector and the TTL cache that the usage   *)
(* and process routes read, with the startup refresh and the interval      *)
(* timer.                                                                  *)
(*                                                                         *)
(* Time is counted in units of 1000 ms (the spec's "time unit"); the       *)
(* clock `now` is what Date.now() returns, in those units.  One action is  *)
(* one run-to-completion job of the Node event loop: a callback together   *)
(* with every promise continuation (microtask) it makes runnable.          *)
(*                                                                         *)
(* Spec is the server in production mode and SpecServe the server in       *)
(* either mode; SpecQuiet is the server left alone, with fairness.         *)
(* SpecCPU, SpecMemory and SpecCollect run the sampler, the memory reader  *)
(* and the collector alone, on inputs drawn from bounded sets.             *)
(***************************************************************************)
EXTENDS Integers, Sequences, FiniteSets, TLC

VARIABLES
    now,          \* the wall clock read by Date.now()
    pc,           \* "boot" before the listen callback ran, then "listening"
    systemCache,  \* the cache record of server.js:22-26
    cacheGen,     \* history: the refresh that wrote each field of systemCache
    refreshes,    \* the updateSystemCache() calls suspended at their await; the
                  \* history field `seen` is the record cached when the call began
    nextId,       \* history: number the next updateSystemCache() call gets
    timerDue,     \* when the setInterval timer fires next
    response,     \* the response the last job sent, if it sent one
    nodeEnv,      \* process.env.NODE_ENV, set before the server starts
    sample,       \* one run of the CPU sampler on os.cpus() tables (SpecCPU)
    collect,      \* one run of the process collector (SpecCollect)
    reading       \* one run of the memory reader (SpecMemory)

mainVars == <<now, pc, systemCache, cacheGen, refreshes, nextId, timerDue, response,
              nodeEnv>>
pureVars == <<sample, collect, reading>>
vars == <<now, pc, systemCache, cacheGen, refreshes, nextId, timerDue, response,
          nodeEnv, sample, collect, reading>>

-----------------------------------------------------------------------------
(* JavaScript numbers: a rational n/d (d > 0), NaN, +Infinity, -Infinity.  *)
(* Rounding of IEEE doubles is not modelled: quotients are exact.          *)

Num(n) == [k |-> "num", n |-> n, d |-> 1]
Rat(n, d) == [k |-> "num", n |-> n, d |-> d]
NaN == [k |-> "nan", n |-> 0, d |-> 1]
PosInf == [k |-> "inf", n |-> 1, d |-> 1]
NegInf == [k |-> "inf", n |-> -1, d |-> 1]

IsNaN(a) == a.k = "nan"
IsNum(a) == a.k = "num"
Sign(a) == IF a.n > 0 THEN 1 ELSE IF a.n < 0 THEN -1 ELSE 0
Signed(s) == IF s > 0 THEN PosInf ELSE NegInf

JsNumber == [k : {"num", "nan", "inf"}, n : Int, d : Int]

\* The operations are functions, so that an operand is evaluated once.

\* a < b for operands that are not NaN
Less[a \in JsNumber, b \in JsNumber] ==
    CASE IsNum(a) /\ IsNum(b) -> a.n * b.d < b.n * a.d
      [] IsNum(a) -> b = PosInf
      [] IsNum(b) -> a = NegInf
      [] OTHER -> a = NegInf /\ b = PosInf

JsLess(a, b) == Less[a, b]

JsEq(a, b) == ~IsNaN(a) /\ ~IsNaN(b) /\ ~JsLess(a, b) /\ ~JsLess(b, a)

\* a - b
Sub[a \in JsNumber, b \in JsNumber] ==
    CASE IsNaN(a) \/ IsNaN(b) -> NaN
      [] IsNum(a) /\ IsNum(b) -> Rat(a.n * b.d - b.n * a.d, a.d * b.d)
      [] IsNum(a) -> Signed(-b.n)
      [] IsNum(b) -> a
      [] OTHER -> IF a = b THEN NaN ELSE a

JsSub(a, b) == Sub[a, b]

\* a * b
Mul[a \in JsNumber, b \in JsNumber] ==
    CASE IsNaN(a) \/ IsNaN(b) -> NaN
      [] IsNum(a) /\ IsNum(b) -> Rat(a.n * b.n, a.d * b.d)
      [] OTHER -> IF Sign(a) * Sign(b) = 0 THEN NaN ELSE Signed(Sign(a) * Sign(b))

JsMul(a, b) == Mul[a, b]

\* a / b: x/0 is an infinity of the sign of x, 0/0 is NaN
Div[a \in JsNumber, b \in JsNumber] ==
    CASE IsNaN(a) \/ IsNaN(b) -> NaN
      [] IsNum(a) /\ IsNum(b) ->
            IF b.n = 0
            THEN IF a.n = 0 THEN NaN ELSE Signed(a.n)
            ELSE IF b.n > 0 THEN Rat(a.n * b.d, a.d * b.n)
                 ELSE Rat(-(a.n * b.d), a.d * (-b.n))
      [] IsNum(a) -> Num(0)
      [] IsNum(b) -> IF b.n = 0 THEN a ELSE Signed(a.n * Sign(b))
      [] OTHER -> NaN

JsDiv(a, b) == Div[a, b]

\* Math.floor
Floor[a \in JsNumber] == IF IsNum(a) THEN Num(a.n \div a.d) ELSE a

JsFloor(a) == Floor[a]

\* Math.round: the nearest integer, a half rounded up
Round[a \in JsNumber] == IF IsNum(a) THEN Num((2 * a.n + a.d) \div (2 * a.d)) ELSE a

JsRound(a) == Round[a]

\* Math.min, Math.max: NaN if either argument is NaN
Min[a \in JsNumber, b \in JsNumber] ==
    IF IsNaN(a) \/ IsNaN(b) THEN NaN ELSE IF Less[b, a] THEN b ELSE a

JsMin(a, b) == Min[a, b]

Max[a \in JsNumber, b \in JsNumber] ==
    IF IsNaN(a) \/ IsNaN(b) THEN NaN ELSE IF Less[a, b] THEN b ELSE a

JsMax(a, b) == Max[a, b]

-----------------------------------------------------------------------------
(* CPU sampler, server.js:32-63.  A table is os.cpus(): one record of tick *)
(* counters per logical core (user, nice, sys, idle, irq).                 *)

RECURSIVE SumTicks(_, _)
\* the forEach of cpuAverage: [idle, tick] sums over the cores i..Len(cpus)
SumTicks(cpus, i) ==
    IF i > Len(cpus) THEN [idle |-> 0, tick |-> 0]
    ELSE LET rest == SumTicks(cpus, i + 1)
             t == cpus[i]
         IN [idle |-> rest.idle + t.idle,
             tick |-> rest.tick + t.user + t.nice + t.sys + t.idle + t.irq]

cpuAverage(cpus) ==
    LET s == SumTicks(cpus, 1)
    IN [idle |-> JsDiv(Num(s.idle), Num(Len(cpus))),
        total |-> JsDiv(Num(s.tick), Num(Len(cpus)))]

\* the callback with Math.round in the place of Math.floor
CpuPercentRounded(startMeasure, endMeasure) ==
    LET idleDifference == JsSub(endMeasure.idle, startMeasure.idle)
        totalDifference == JsSub(endMeasure.total, startMeasure.total)
        cpuPercentage ==
            JsSub(Num(100), JsRound(JsDiv(JsMul(Num(100), idleDifference), totalDifference)))
    IN JsMax(Num(0), JsMin(Num(100), cpuPercentage))

\* the setTimeout callback of getCPUUsage, lines 37-41
CpuPercent(startMeasure, endMeasure) ==
    LET idleDifference == JsSub(endMeasure.idle, startMeasure.idle)
        totalDifference == JsSub(endMeasure.total, startMeasure.total)
        cpuPercentage ==
            JsSub(Num(100), JsFloor(JsDiv(JsMul(Num(100), idleDifference), totalDifference)))
    IN JsMax(Num(0), JsMin(Num(100), cpuPercentage))

-----------------------------------------------------------------------------
(* Memory reader, server.js:69-80.  Byte counts are given in MiB; a GB     *)
(* figure is kept in hundredths, as Math.round(x * 100) / 100 leaves it.   *)

MiBPerGiB == 1024

\* Math.round of the non-negative quotient n/d: floor(n/d + 1/2)
RoundDiv(n, d) == (2 * n + d) \div (2 * d)

\* the reader with the percentage taken of the free figure
getMemoryUsageOfFree(totalMiB, freeMiB) ==
    LET totalMemGB == RoundDiv(totalMiB * 100, MiBPerGiB)
        freeMemGB == RoundDiv(freeMiB * 100, MiBPerGiB)
        usedMemGB == totalMemGB - freeMemGB
    IN [total |-> totalMemGB,
        used |-> usedMemGB,
        free |-> freeMemGB,
        usagePercent |-> JsRound(JsMul(JsDiv(Num(freeMemGB), Num(totalMemGB)), Num(100)))]

getMemoryUsage(totalMiB, freeMiB) ==
    LET totalMemGB == RoundDiv(totalMiB * 100, MiBPerGiB)
        freeMemGB == RoundDiv(freeMiB * 100, MiBPerGiB)
        usedMemGB == totalMemGB - freeMemGB
    IN [total |-> totalMemGB,
        used |-> usedMemGB,
        free |-> freeMemGB,
        usagePercent |-> JsRound(JsMul(JsDiv(Num(usedMemGB), Num(totalMemGB)), Num(100)))]

-----------------------------------------------------------------------------
(* Process collector, server.js:86-147.  A listing is what the command     *)
(* printed, one record per line after the header; cpu and memory figures   *)
(* are kept in tenths.                                                     *)

MsPerUnit == 1000
MaxKept == 10
WindowsKept == 15
Synthetic == 5

\* slice(0, n) without its bound
TakeAll(s, n) == s

\* s.slice(0, n)
Take(s, n) == SubSeq(s, 1, IF Len(s) < n THEN Len(s) ELSE n)

\* line i of the command's output, the header not counted
ListingLine(i) == [pid |-> 100 + i, cpu |-> 10 * i, mem |-> i, comm |-> "proc"]
Listing(n) == [i \in 1..n |-> ListingLine(i)]

\* lines 117-128 (other platforms): one record per line, id = index + 1
ParseLines(lines) ==
    [i \in 1..Len(lines) |->
        [id |-> i, name |-> lines[i].comm, pid |-> lines[i].pid,
         cpu |-> lines[i].cpu, memory |-> lines[i].mem * 10, status |-> "Running"]]

\* lines 104-115 (win32): the first 15 lines, id = index + 1; cpu and memory
\* are Math.random() draws, rnd for every line
ParseTasklist(lines, rnd) ==
    [i \in 1..Len(Take(lines, WindowsKept)) |->
        [id |-> i, name |-> lines[i].comm, pid |-> lines[i].pid,
         cpu |-> rnd.cpu, memory |-> rnd.memory, status |-> "Running"]]

\* the ids of lines 133-137 when every record is given Date.now() itself
simulatedProcessesSameId(reads) ==
    << [id |-> reads[1], name |-> "chrome.exe", pid |-> 1234,
        cpu |-> 255, memory |-> 8562, status |-> "Running"],
       [id |-> reads[2], name |-> "node.exe", pid |-> 5678,
        cpu |-> 123, memory |-> 3421, status |-> "Running"],
       [id |-> reads[3], name |-> "code.exe", pid |-> 9012,
        cpu |-> 87, memory |-> 6234, status |-> "Running"],
       [id |-> reads[4], name |-> "firefox.exe", pid |-> 3456,
        cpu |-> 152, memory |-> 7218, status |-> "Running"],
       [id |-> reads[5], name |-> "explorer.exe", pid |-> 7890,
        cpu |-> 31, memory |-> 1245, status |-> "Running"] >>

\* lines 132-138; reads[k] is what the k-th Date.now() of the literal
\* returned, in ms
simulatedProcesses(reads) ==
    << [id |-> reads[1], name |-> "chrome.exe", pid |-> 1234,
        cpu |-> 255, memory |-> 8562, status |-> "Running"],
       [id |-> reads[2] + 1, name |-> "node.exe", pid |-> 5678,
        cpu |-> 123, memory |-> 3421, status |-> "Running"],
       [id |-> reads[3] + 2, name |-> "code.exe", pid |-> 9012,
        cpu |-> 87, memory |-> 6234, status |-> "Running"],
       [id |-> reads[4] + 3, name |-> "firefox.exe", pid |-> 3456,
        cpu |-> 152, memory |-> 7218, status |-> "Running"],
       [id |-> reads[5] + 4, name |-> "explorer.exe", pid |-> 7890,
        cpu |-> 31, memory |-> 1245, status |-> "Running"] >>

\* the five reads when the clock shows t (in time units) and does not move
\* between them
SameMs(t) == [k \in 1..Synthetic |-> t * MsPerUnit]

\* What the exec callback resolves the collector's promise with.  out.kind is
\* "error" (the command failed), "parseError" (parsing threw) or "ok".
ExecResult(out, reads) ==
    CASE out.kind = "error" -> << >>
      [] out.kind = "parseError" -> << >>
      [] OTHER ->
            LET processes == IF out.windows
                             THEN ParseTasklist(Listing(out.lines), out.rnd)
                             ELSE ParseLines(Listing(out.lines))
            IN simulatedProcesses(reads) \o Take(processes, MaxKept)

\* How the promise of getProcesses settles (lines 87-146): the executor takes
\* `resolve` only, and every branch of the callback calls it.
Fulfilled(value) == [state |-> "fulfilled", value |-> value]
Rejected == [state |-> "rejected", value |-> << >>]

getProcessesRejectsFailure(out, reads) ==
    IF out.kind = "ok" THEN Fulfilled(ExecResult(out, reads)) ELSE Rejected

getProcesses(out, reads) == Fulfilled(ExecResult(out, reads))

-----------------------------------------------------------------------------
(* The cache and its refresh, server.js:22-26 and 152-175.                 *)

UsageTTL == 3
ProcessTTL == 5
RefreshInterval == 4
SampleWait == 1

\* Date.now() when the server starts: later than any TTL after the epoch
StartTime == ProcessTTL + 1

\* bounds of the model
Horizon == 6
MaxRefreshes == 2
MaxCores == 2
MaxListed == 16
MaxDrift == 1
MaxMemSteps == 8

MaxTime == StartTime + Horizon

\* what the environment may answer
CoreEarly == [user |-> 2, nice |-> 0, sys |-> 0, idle |-> 8, irq |-> 0]
CoreLate == [user |-> 3, nice |-> 0, sys |-> 1, idle |-> 16, irq |-> 0]
CoreStopped == [user |-> 0, nice |-> 0, sys |-> 0, idle |-> 0, irq |-> 0]
CoreBusy == [user |-> 150, nice |-> 0, sys |-> 50, idle |-> 800, irq |-> 0]
CoreIdle == [user |-> 1, nice |-> 1, sys |-> 0, idle |-> 11, irq |-> 0]
CoreWorking == [user |-> 9, nice |-> 0, sys |-> 0, idle |-> 1, irq |-> 0]
StartTables == { <<CoreEarly>> }
EndTables == { <<CoreLate>> }
MemReadings == { [total |-> 16384, free |-> 4096] }
\* what exec calls back with: the platform the server runs on (windows), the
\* number of listed lines and, on win32, the Math.random() draws (in tenths)
Outcome(kind, lines, windows, rnd) ==
    [kind |-> kind, lines |-> lines, windows |-> windows, rnd |-> rnd]
NoDraw == [cpu |-> 0, memory |-> 0]
Draws == { NoDraw, [cpu |-> 299, memory |-> 9999] }
Failures == { Outcome("error", 0, FALSE, NoDraw), Outcome("parseError", 0, FALSE, NoDraw) }
\* the server of Spec does not run on win32
ExecOutcomes == Failures \cup { Outcome("ok", n, FALSE, NoDraw) : n \in {0, MaxListed} }

InitialCache ==
    [usage |-> [cpu |-> Num(0), ramTotal |-> 0, ramUsed |-> 0,
                ramPercent |-> Num(0), timestamp |-> 0],
     processes |-> << >>,
     lastUpdate |-> 0]

InitialGen == [usage |-> 0, processes |-> 0, lastUpdate |-> 0]

NodeEnvs == {"production", "development"}

\* the texts of an error response's `error` and `message` members
InternalError == "Erro interno do servidor"
ErrorMessage == "error.message"

NoResponse ==
    [kind |-> "none", status |-> 0, usage |-> InitialCache.usage,
     processes |-> << >>, count |-> 0, awaited |-> 0, gen |-> 0,
     error |-> "", message |-> ""]

CollectIdle ==
    [phase |-> "idle", out |-> Outcome("error", 0, FALSE, NoDraw), at |-> 0,
     drift |-> [k \in 1..Synthetic |-> 0], result |-> << >>]

ReadingIdle == [phase |-> "idle", total |-> 0, free |-> 0,
                result |-> [total |-> 0, used |-> 0, free |-> 0, usagePercent |-> Num(0)]]

SampleIdle ==
    [phase |-> "idle", cpusStart |-> << >>, cpusEnd |-> << >>,
     startMeasure |-> [idle |-> Num(0), total |-> Num(0)], result |-> Num(0)]

\* the assignment of lines 161-171: t1 and t2 are the two Date.now() reads
ReplaceUsageOnly(cache, gen, id, cpu, processes, memory, t1, t2) ==
    [cache |->
        [usage |-> [cpu |-> cpu, ramTotal |-> memory.total, ramUsed |-> memory.used,
                    ramPercent |-> memory.usagePercent, timestamp |-> t1],
         processes |-> cache.processes,
         lastUpdate |-> t2],
     gen |-> [usage |-> id, processes |-> gen.processes, lastUpdate |-> id]]

Replace(cache, gen, id, cpu, processes, memory, t1, t2) ==
    [cache |->
        [usage |-> [cpu |-> cpu, ramTotal |-> memory.total, ramUsed |-> memory.used,
                    ramPercent |-> memory.usagePercent, timestamp |-> t1],
         processes |-> processes,
         lastUpdate |-> t2],
     gen |-> [usage |-> id, processes |-> id, lastUpdate |-> id]]

\* a catch that puts the initial record back
CaughtAndReset(cache, gen) == [cache |-> InitialCache, gen |-> InitialGen]

\* the catch of lines 172-174: the error is logged, the record stays
Caught(cache, gen) == [cache |-> cache, gen |-> gen]

\* res.json of lines 189-193 and 214-219, sent after awaiting refresh `awaited`
RouteResponse(kind, cache, gen, awaited) ==
    IF kind = "usage"
    THEN [kind |-> "usage", status |-> 200, usage |-> cache.usage,
          processes |-> << >>, count |-> 0, awaited |-> awaited, gen |-> gen.usage,
          error |-> "", message |-> ""]
    ELSE [kind |-> "processes", status |-> 200, usage |-> InitialCache.usage,
          processes |-> cache.processes, count |-> Len(cache.processes),
          awaited |-> awaited, gen |-> gen.processes,
          error |-> "", message |-> ""]

\* the catch of lines 194-201 and 220-227, reached when the try block of the
\* route throws: the response carries the exception's message, whatever env is
ErrorResponse(kind, env, awaited) ==
    [kind |-> kind, status |-> 500, usage |-> InitialCache.usage,
     processes |-> << >>, count |-> 0, awaited |-> awaited, gen |-> 0,
     error |-> InternalError, message |-> ErrorMessage]

\* what the route sends: res.json of the try block, or the catch if that threw
Respond(kind, cache, gen, awaited, failed) ==
    IF failed THEN ErrorResponse(kind, nodeEnv, awaited)
    ELSE RouteResponse(kind, cache, gen, awaited)

IsRead(origin) == origin \in {"usage", "processes"}

\* timerDue is 0 as long as no interval timer is armed
TimerArmed == timerDue # 0

\* a timer that is due fires before the clock moves on
TimersQuiet(rs) ==
    /\ pc = "listening"
    /\ TimerArmed => timerDue > now
    /\ \A r \in rs : r.cpuDone \/ r.startedAt + SampleWait > now

CanStart == nextId <= MaxRefreshes

\* updateSystemCache() up to its await (lines 152-157): the sampler takes its
\* first measure and arms its timeout, the collector launches the command
Start(origin, hangs) ==
    /\ CanStart
    /\ \E table \in StartTables, h \in hangs :
          refreshes' = refreshes \cup
              { [id |-> nextId, origin |-> origin, startedAt |-> now,
                 seen |-> cacheGen.lastUpdate,
                 startMeasure |-> cpuAverage(table),
                 cpuDone |-> FALSE, cpu |-> Num(0),
                 procDone |-> FALSE, processes |-> << >>, hung |-> h] }
    /\ nextId' = nextId + 1

\* updateSystemCache() after its await (lines 159-174) for refresh r, and the
\* continuation of the route that awaited it, which may fail (failed)
Complete(r, cpu, processes, throws) ==
    LET rest == refreshes \ {r} IN
    /\ refreshes' = rest
    /\ \E thrown \in throws, m \in MemReadings, t2 \in {now, now + 1}, failed \in BOOLEAN :
          /\ failed => IsRead(r.origin)
          /\ t2 > now => (t2 <= MaxTime /\ TimersQuiet(rest))
          /\ now' = (IF thrown THEN now ELSE t2)
          /\ LET new == IF thrown
                        THEN Caught(systemCache, cacheGen)
                        ELSE Replace(systemCache, cacheGen, r.id, cpu, processes,
                                     getMemoryUsage(m.total, m.free), now, t2)
             IN /\ systemCache' = new.cache
                /\ cacheGen' = new.gen
                /\ response' = IF IsRead(r.origin)
                               THEN Respond(r.origin, new.cache, new.gen, r.id, failed)
                               ELSE NoResponse

-----------------------------------------------------------------------------
(* The event loop's jobs.                                                  *)

\* the listen callback without its setInterval
ListenNoInterval(hangs) ==
    /\ pc = "boot"
    /\ pc' = "listening"
    /\ Start("startup", hangs)
    /\ response' = NoResponse
    /\ UNCHANGED <<now, systemCache, cacheGen, timerDue, sample, collect, reading, nodeEnv>>

\* the listen callback, lines 306-324: the eager refresh and the interval
Listen(hangs) ==
    /\ pc = "boot"
    /\ pc' = "listening"
    /\ Start("startup", hangs)
    /\ timerDue' = now + RefreshInterval
    /\ response' = NoResponse
    /\ UNCHANGED <<now, systemCache, cacheGen, sample, collect, reading, nodeEnv>>

\* the interval timer of line 323
TimerFire(hangs) ==
    /\ TimerArmed
    /\ now >= timerDue
    /\ Start("timer", hangs)
    /\ timerDue' = timerDue + RefreshInterval
    /\ response' = NoResponse
    /\ UNCHANGED <<now, pc, systemCache, cacheGen, sample, collect, reading, nodeEnv>>

\* the staleness tests of lines 185 and 210
UsageStaleFromBoundary == now - systemCache.lastUpdate >= UsageTTL
UsageStale == now - systemCache.lastUpdate > UsageTTL
ProcessesStale == now - systemCache.lastUpdate > ProcessTTL

Stale(kind) == IF kind = "usage" THEN UsageStale ELSE ProcessesStale

\* a read that found the cache stale: it calls updateSystemCache() and is
\* suspended until that call returns (lines 186 and 211)
StaleReadNoAwait(kind, hangs) ==
    /\ Start(kind, hangs)
    /\ response' = RouteResponse(kind, systemCache, cacheGen, nextId)
    /\ UNCHANGED <<now, pc, systemCache, cacheGen, timerDue, sample, collect, reading, nodeEnv>>

StaleRead(kind, hangs) ==
    /\ Start(kind, hangs)
    /\ response' = NoResponse
    /\ UNCHANGED <<now, pc, systemCache, cacheGen, timerDue, sample, collect, reading, nodeEnv>>

\* a read that found the cache fresh answers at once
FreshRead(kind) ==
    /\ \E failed \in BOOLEAN : response' = Respond(kind, systemCache, cacheGen, 0, failed)
    /\ UNCHANGED <<now, pc, systemCache, cacheGen, refreshes, nextId, timerDue, sample, collect, reading, nodeEnv>>

\* GET /api/usage, lines 182-202
GetUsage(hangs) ==
    /\ pc = "listening"
    /\ IF Stale("usage") THEN StaleRead("usage", hangs) ELSE FreshRead("usage")

\* GET /api/processes, lines 207-228
GetProcesses(hangs) ==
    /\ pc = "listening"
    /\ IF Stale("processes") THEN StaleRead("processes", hangs) ELSE FreshRead("processes")

\* timeouts of the same delay run in the order they were set
FirstTimeout(r) == \A q \in refreshes : ~q.cpuDone => q.id >= r.id

\* the sampler's timeout when the refresh does not wait for the collector
SamplerFireAlone(throws) ==
    \E r \in refreshes, table \in EndTables :
        /\ ~r.cpuDone
        /\ now >= r.startedAt + SampleWait
        /\ FirstTimeout(r)
        /\ Complete(r, CpuPercent(r.startMeasure, cpuAverage(table)), r.processes, throws)
        /\ UNCHANGED <<pc, nextId, timerDue, sample, collect, reading, nodeEnv>>

\* the sampler's timeout, lines 36-42, the oldest one pending; the refresh
\* goes on if the collector has resolved already
SamplerFire(throws) ==
    \E r \in refreshes, table \in EndTables :
        /\ ~r.cpuDone
        /\ now >= r.startedAt + SampleWait
        /\ FirstTimeout(r)
        /\ LET cpu == CpuPercent(r.startMeasure, cpuAverage(table)) IN
           IF r.procDone
           THEN Complete(r, cpu, r.processes, throws)
           ELSE /\ refreshes' = (refreshes \ {r})
                       \cup {[r EXCEPT !.cpuDone = TRUE, !.cpu = cpu]}
                /\ response' = NoResponse
                /\ UNCHANGED <<now, systemCache, cacheGen>>
        /\ UNCHANGED <<pc, nextId, timerDue, sample, collect, reading, nodeEnv>>

\* the callback of exec, lines 93-145; the refresh goes on if the sampler has
\* resolved already.  A command that hangs never calls back.  The clock does
\* not move between the Date.now() reads of lines 133-137.  Promise.all
\* rejects as soon as one of its promises does, and the await then throws
\* into the catch of line 172.
ExecCallback(throws) ==
    \E r \in refreshes, out \in ExecOutcomes :
        /\ ~r.procDone
        /\ ~r.hung
        /\ LET settled == getProcesses(out, SameMs(now)) IN
           IF settled.state = "rejected"
           THEN Complete(r, r.cpu, << >>, {TRUE})
           ELSE IF r.cpuDone
           THEN Complete(r, r.cpu, settled.value, throws)
           ELSE /\ refreshes' = (refreshes \ {r})
                       \cup {[r EXCEPT !.procDone = TRUE, !.processes = settled.value]}
                /\ response' = NoResponse
                /\ UNCHANGED <<now, systemCache, cacheGen>>
        /\ UNCHANGED <<pc, nextId, timerDue, sample, collect, reading, nodeEnv>>

\* the clock moves on by one unit
Tick ==
    /\ now < MaxTime
    /\ TimersQuiet(refreshes)
    /\ now' = now + 1
    /\ response' = NoResponse
    /\ UNCHANGED <<pc, systemCache, cacheGen, refreshes, nextId, timerDue, sample, collect, reading, nodeEnv>>

InitMain ==
    /\ now = StartTime
    /\ pc = "boot"
    /\ systemCache = InitialCache
    /\ cacheGen = InitialGen
    /\ refreshes = {}
    /\ nextId = 1
    /\ timerDue = 0
    /\ response = NoResponse

PureIdle ==
    /\ sample = SampleIdle
    /\ collect = CollectIdle
    /\ reading = ReadingIdle

\* the server as deployed: NODE_ENV=production
Init ==
    /\ InitMain
    /\ PureIdle
    /\ nodeEnv = "production"

Next ==
    \/ Listen(BOOLEAN)
    \/ TimerFire(BOOLEAN)
    \/ GetUsage(BOOLEAN)
    \/ GetProcesses(BOOLEAN)
    \/ SamplerFire(BOOLEAN)
    \/ ExecCallback(BOOLEAN)
    \/ Tick

Spec == Init /\ [][Next]_vars

\* the server in either configuration
InitServe ==
    /\ InitMain
    /\ PureIdle
    /\ nodeEnv \in NodeEnvs

SpecServe == InitServe /\ [][Next]_vars

\* No request arrives, every command calls back (with a listing or a failure)
\* and nothing throws after the await; the event loop runs every job that is
\* ready, and the clock goes on.
NextQuiet ==
    \/ Listen({FALSE})
    \/ TimerFire({FALSE})
    \/ SamplerFire({FALSE})
    \/ ExecCallback({FALSE})
    \/ Tick

SpecQuiet ==
    /\ Init
    /\ [][NextQuiet]_vars
    /\ WF_vars(Listen({FALSE}))
    /\ WF_vars(TimerFire({FALSE}))
    /\ WF_vars(SamplerFire({FALSE}))
    /\ WF_vars(ExecCallback({FALSE}))
    /\ WF_vars(Tick)

-----------------------------------------------------------------------------
(* The CPU sampler alone, on every pair of os.cpus() tables of one to      *)
(* MaxCores cores.                                                         *)

CoreSamples == {CoreStopped, CoreEarly, CoreLate, CoreBusy, CoreIdle, CoreWorking}
CpuTables == UNION { [1..n -> CoreSamples] : n \in 1..MaxCores }

\* getCPUUsage up to its setTimeout, lines 33-36
SampleStart ==
    /\ sample.phase = "idle"
    /\ sample' = [sample EXCEPT !.phase = "waiting",
                                !.startMeasure = cpuAverage(sample.cpusStart)]
    /\ UNCHANGED <<mainVars, collect, reading>>

\* the timeout's callback, lines 37-41
SampleEnd ==
    /\ sample.phase = "waiting"
    /\ sample' = [sample EXCEPT !.phase = "done",
                                !.result = CpuPercent(sample.startMeasure,
                                                      cpuAverage(sample.cpusEnd))]
    /\ UNCHANGED <<mainVars, collect, reading>>

InitCPU ==
    /\ InitMain
    /\ nodeEnv = "production"
    /\ collect = CollectIdle
    /\ reading = ReadingIdle
    /\ \E a \in CpuTables, b \in CpuTables :
          sample = [SampleIdle EXCEPT !.cpusStart = a, !.cpusEnd = b]

NextCPU == SampleStart \/ SampleEnd

SpecCPU == InitCPU /\ [][NextCPU]_vars


-----------------------------------------------------------------------------
(* The process collector alone, on every outcome of the listing command,   *)
(* on both platforms, with the clock advancing between the Date.now()      *)
(* reads of lines 133-137.                                                 *)

CollectOutcomes ==
    Failures
    \cup { Outcome("ok", n, FALSE, NoDraw) : n \in 0..MaxListed }
    \cup { Outcome("ok", n, TRUE, rnd) : n \in 0..MaxListed, rnd \in Draws }

\* by how many ms each of the five reads is later than the first: the clock
\* does not go back
ClockDrifts ==
    { d \in [1..Synthetic -> 0..MaxDrift] : \A k \in 1..(Synthetic - 1) : d[k] <= d[k + 1] }

\* the Date.now() reads of the run
Reads(c) == [k \in 1..Synthetic |-> c.at * MsPerUnit + c.drift[k]]

\* getProcesses up to the call of exec, lines 87-93
CollectStart ==
    /\ collect.phase = "idle"
    /\ collect' = [collect EXCEPT !.phase = "running"]
    /\ UNCHANGED <<mainVars, sample, reading>>

\* the callback of exec, lines 93-145
CollectEnd ==
    /\ collect.phase = "running"
    /\ collect' = [collect EXCEPT !.phase = "done",
                                  !.result = getProcesses(collect.out, Reads(collect)).value]
    /\ UNCHANGED <<mainVars, sample, reading>>

InitCollect ==
    /\ InitMain
    /\ nodeEnv = "production"
    /\ sample = SampleIdle
    /\ reading = ReadingIdle
    /\ \E o \in CollectOutcomes, t \in StartTime..MaxTime, d \in ClockDrifts :
          collect = [CollectIdle EXCEPT !.out = o, !.at = t, !.drift = d]

NextCollect == CollectStart \/ CollectEnd

SpecCollect == InitCollect /\ [][NextCollect]_vars


-----------------------------------------------------------------------------
(* The memory reader alone.  os.totalmem() and os.freemem() are given in   *)
(* MiB: the 16 GiB machine with 4 GiB free, and machines of 512 MiB and a  *)
(* little more with nothing, little, much or all of the memory free.       *)

MemTotals == {16 * MiBPerGiB} \cup { 512 + 3 * k : k \in 0..MaxMemSteps }
MemFrees(total) ==
    { f \in {0, 4 * MiBPerGiB, total} \cup { 7 * k : k \in 0..MaxMemSteps }
                \cup { total - 5 * k : k \in 0..MaxMemSteps } : f <= total }

\* getMemoryUsage, lines 69-80
ReadMemory ==
    /\ reading.phase = "idle"
    /\ reading' = [reading EXCEPT !.phase = "done",
                                  !.result = getMemoryUsage(reading.total, reading.free)]
    /\ UNCHANGED <<mainVars, sample, collect>>

InitMemory ==
    /\ InitMain
    /\ nodeEnv = "production"
    /\ sample = SampleIdle
    /\ collect = CollectIdle
    /\ \E total \in MemTotals :
          \E free \in MemFrees(total) :
              reading = [ReadingIdle EXCEPT !.total = total, !.free = free]

NextMemory == ReadMemory

SpecMemory == InitMemory /\ [][NextMemory]_vars

-----------------------------------------------------------------------------
(* Properties.                                                             *)

Kinds == {"usage", "processes"}
TTL(kind) == IF kind = "usage" THEN UsageTTL ELSE ProcessTTL
Age == now - systemCache.lastUpdate
Read(kind) == IF kind = "usage" THEN GetUsage(BOOLEAN) ELSE GetProcesses(BOOLEAN)
\* refresh r returned in this step
Returned(r) == r \in refreshes /\ \A q \in refreshes' : q.id # r.id

\* C1: at most one refresh is in flight at any time; a second one is never
\* started while an earlier one has not completed.
C1_SingleFlight == Cardinality(refreshes) <= 1

\* C2: the cache record is whole in every reachable state: usage, processes and
\* lastUpdate were written by the same refresh (or are all initial), and what
\* a read answers with (status 200) is taken from that one record.
C2_CacheWhole ==
    /\ cacheGen.usage = cacheGen.processes
    /\ cacheGen.processes = cacheGen.lastUpdate
    /\ cacheGen.lastUpdate = 0 => systemCache = InitialCache
    /\ (response.kind = "usage" /\ response.status = 200) =>
          response.usage = systemCache.usage /\ response.gen = cacheGen.lastUpdate
    /\ (response.kind = "processes" /\ response.status = 200) =>
          /\ response.processes = systemCache.processes
          /\ response.count = Len(systemCache.processes)
          /\ response.gen = cacheGen.lastUpdate

\* a process read answered from a published record while a refresh is in flight
C2_Witness ==
    /\ response.kind = "processes"
    /\ response.status = 200
    /\ response.gen > 0
    /\ refreshes # {}

\* C3: a read whose cache age is at most its threshold (3 for usage, 5 for
\* processes, the boundary included) starts no refresh, answers at once with
\* the cached record (or, if sending it throws, with the error response) and
\* leaves the cache as it is.
C3_FreshReadServedFromCache ==
    [][\A kind \in Kinds :
          (Read(kind) /\ Age <= TTL(kind)) =>
              /\ refreshes' = refreshes
              /\ nextId' = nextId
              /\ systemCache' = systemCache
              /\ cacheGen' = cacheGen
              /\ now' = now
              /\ response' \in { Respond(kind, systemCache, cacheGen, 0, failed) :
                                    failed \in BOOLEAN }]_vars

\* a usage read answered without waiting when the age is exactly the threshold
C3_Witness ==
    /\ response.kind = "usage"
    /\ response.status = 200
    /\ response.awaited = 0
    /\ Age = UsageTTL
    /\ response.usage = systemCache.usage

C5_FailedRefreshLeavesCacheAsAtStart ==
    [][\A r \in refreshes :
          (Returned(r) /\ cacheGen'.lastUpdate # r.id) =>
              /\ cacheGen' = [usage |-> r.seen, processes |-> r.seen, lastUpdate |-> r.seen]
              /\ systemCache' = systemCache
              /\ pc' = "listening"]_vars

\* C6: while the command of a refresh hangs, every read that is issued still
\* completes: it never waits on a command that does not return.
C6_ReadsDuringHangComplete ==
    \A r \in refreshes :
        (IsRead(r.origin) /\ \E h \in refreshes : h.hung /\ h.id < r.id) => ~r.hung

\* C7: with no request traffic a refresh starts at startup and at every 4th
\* time unit after it, and if samplers and collectors complete, lastUpdate
\* leaves 0 and, up to the horizon of the clock, always advances again.
TimerTimes ==
    { t \in (StartTime + 1)..MaxTime : (t - StartTime) % RefreshInterval = 0 }

C8_SampledAtIsLastUpdate ==
    cacheGen.lastUpdate # 0 => systemCache.usage.timestamp = systemCache.lastUpdate

\* C9: for every pair of tick snapshots the sampler returns a percent in
\* [0,100], and 0 when totalDelta is 0; never NaN or an infinity.
C9_PercentInRange ==
    sample.phase = "done" =>
        LET totalDelta == JsSub(cpuAverage(sample.cpusEnd).total,
                                cpuAverage(sample.cpusStart).total)
        IN /\ IsNum(sample.result)
           /\ ~JsLess(sample.result, Num(0))
           /\ ~JsLess(Num(100), sample.result)
           /\ JsEq(totalDelta, Num(0)) => sample.result = Num(0)

\* C10: when the listing command fails the collector returns exactly the five
\* synthetic records.
C10_FailureKeepsSynthetic ==
    (collect.phase = "done" /\ collect.out.kind = "error") =>
        /\ Len(collect.result) = 5
        /\ collect.result = simulatedProcesses(Reads(collect))

\* C11: the collector never propagates a failure.  Whether the command fails
\* or parsing throws, its promise is fulfilled with a list, and, nothing else
\* throwing, the refresh it belongs to returns having published a new record
\* that holds that list.
C11_CollectorFailureAbsorbed ==
    /\ [][\A r \in refreshes :
            Returned(r) =>
                /\ cacheGen' = [usage |-> r.id, processes |-> r.id, lastUpdate |-> r.id]
                /\ systemCache'.lastUpdate >= now
                /\ r.procDone => systemCache'.processes = r.processes]_vars
    /\ \A id \in 1..MaxRefreshes :
          (\E r \in refreshes : r.id = id /\ r.procDone /\ r.processes = << >>)
              ~> (cacheGen.lastUpdate = id /\ systemCache.processes = << >>)

\* a refresh whose collector failed has published its record, list empty
C11_Witness ==
    /\ cacheGen.lastUpdate > 0
    /\ systemCache.lastUpdate >= StartTime + SampleWait
    /\ systemCache.processes = << >>
    /\ systemCache.usage.ramUsed > 0

\* C12: in every list the collector returns the ids of the records are
\* pairwise distinct, synthetic and real records taken together.
C12_IdsDistinct ==
    collect.phase = "done" =>
        \A i \in 1..Len(collect.result), j \in 1..Len(collect.result) :
            i # j => collect.result[i].id # collect.result[j].id

\* a list of five synthetic and ten real records, built while the clock
\* advanced between the Date.now() reads
C12_Witness ==
    /\ collect.phase = "done"
    /\ Len(collect.result) = Synthetic + MaxKept
    /\ collect.drift[Synthetic] > collect.drift[1]

C14_NoDetailInProduction ==
    response.status = 500 =>
        /\ response.error = InternalError
        /\ response.message # "" => nodeEnv # "production"

\* C15: for totalDelta > 0 the sampler returns 100 - floor(100 * idleDelta /
\* totalDelta) clamped to [0,100], the deltas being the differences of the two
\* per-core averages; idle delta 800 and total delta 1000 give 20.
C15_SamplerFormula ==
    sample.phase = "done" =>
        LET nS == Len(sample.cpusStart)
            nE == Len(sample.cpusEnd)
            s == SumTicks(sample.cpusStart, 1)
            e == SumTicks(sample.cpusEnd, 1)
            \* the deltas, multiplied by nS * nE
            idleDelta == e.idle * nS - s.idle * nE
            totalDelta == e.tick * nS - s.tick * nE
            raw == 100 - ((100 * idleDelta) \div totalDelta)
            clamped == IF raw < 0 THEN 0 ELSE IF raw > 100 THEN 100 ELSE raw
        IN totalDelta > 0 =>
              /\ sample.result = Num(clamped)
              /\ (idleDelta = 800 * nS * nE /\ totalDelta = 1000 * nS * nE) =>
                    sample.result = Num(20)

\* the sampler has returned 20 for idle delta 800 and total delta 1000
C15_Witness ==
    /\ sample.phase = "done"
    /\ sample.cpusStart = <<CoreStopped>>
    /\ sample.cpusEnd = <<CoreBusy>>
    /\ sample.result = Num(20)

\* the names and pids of lines 133-137
SyntheticNames == <<"chrome.exe", "node.exe", "code.exe", "firefox.exe", "explorer.exe">>
SyntheticPids == <<1234, 5678, 9012, 3456, 7890>>

\* C16: when the listing command succeeds (and its output is parsed) the
\* collector returns the five synthetic records in their fixed order, then the
\* first at most ten parsed records in listing order: 5 to 15 entries, and no
\* record of a line beyond the tenth.
C16_SyntheticThenTenReal ==
    (collect.phase = "done" /\ collect.out.kind = "ok") =>
        LET result == collect.result
            kept == IF collect.out.lines < MaxKept THEN collect.out.lines ELSE MaxKept
        IN /\ Len(result) = Synthetic + kept
           /\ Len(result) >= 5 /\ Len(result) <= 15
           /\ \A k \in 1..Synthetic :
                 /\ result[k].name = SyntheticNames[k]
                 /\ result[k].pid = SyntheticPids[k]
                 /\ result[k] = simulatedProcesses(Reads(collect))[k]
           /\ \A k \in 1..kept :
                 /\ result[Synthetic + k].pid = ListingLine(k).pid
                 /\ result[Synthetic + k].name = ListingLine(k).comm
                 /\ result[Synthetic + k].id = k
           /\ \A i \in 1..Len(result), j \in (MaxKept + 1)..collect.out.lines :
                 result[i].pid # ListingLine(j).pid

\* a listing of more than ten lines has been cut to ten on win32
C16_Witness ==
    /\ collect.phase = "done"
    /\ collect.out.kind = "ok"
    /\ collect.out.windows
    /\ collect.out.lines > WindowsKept
    /\ Len(collect.result) = 15
    /\ collect.result[15].pid = ListingLine(MaxKept).pid

\* C17: a refresh starts its sampler and its collector in the same step, both
\* pending; the memory reader runs and the cache record is replaced only in
\* the step in which the second of the two completes, whichever that is, with
\* the result the first one had delivered.
C17_PublishAfterBoth ==
    /\ [][\A r \in refreshes' :
            (\A q \in refreshes : q.id # r.id) =>
                ~r.cpuDone /\ ~r.procDone /\ r.startedAt = now]_vars
    /\ [][systemCache' # systemCache =>
            \E r \in refreshes :
                /\ Returned(r)
                /\ cacheGen'.lastUpdate = r.id
                /\ r.cpuDone # r.procDone
                /\ r.cpuDone => systemCache'.usage.cpu = r.cpu
                /\ r.procDone => systemCache'.processes = r.processes
                /\ systemCache'.usage.ramTotal > 0]_vars
    /\ [](\A r \in refreshes :
            cacheGen.lastUpdate # r.id /\ ~(r.cpuDone /\ r.procDone))

\* a record published when the sampler completed after the collector had (the
\* list is older than the usage figures), while in another refresh the sampler
\* has completed and the collector is still running
C17_Witness ==
    /\ cacheGen.lastUpdate # 0
    /\ Len(systemCache.processes) > 0
    /\ systemCache.processes[1].id < systemCache.usage.timestamp * MsPerUnit
    /\ \E r \in refreshes : r.cpuDone /\ ~r.procDone

\* C18: refreshes publish in the order they started: the record a refresh
\* publishes never replaces the record of a refresh that started after it.
C18_PublishInStartOrder ==
    [][cacheGen'.lastUpdate # cacheGen.lastUpdate =>
          cacheGen'.lastUpdate > cacheGen.lastUpdate]_vars

\* C19: lastUpdate never decreases, whatever refreshes succeed or fail and
\* whatever is read, and once it is not 0 it is never 0 again.
C19_LastUpdateMonotone ==
    [][/\ systemCache'.lastUpdate >= systemCache.lastUpdate
       /\ systemCache.lastUpdate # 0 => systemCache'.lastUpdate # 0]_vars

\* a read that awaited refresh 2 is answered with the record of refresh 1:
\* refresh 2 has failed after refresh 1 had published
C19_Witness ==
    /\ response.status = 200
    /\ response.awaited = 2
    /\ response.gen = 1
    /\ systemCache.lastUpdate > 0

====
